---------------------------- MODULE Spec2Model ----------------------------
(***************************************************************************)
(* Dot Triage (src/app.py): the POST /triage handler, the Airtable client  *)
(* ledger (get_client_by_code / increment_client_job_number) and the       *)
(* markdown-fence stripper (strip_markdown_json).                          *)
(*                                                                         *)
(* Strings are sequences of one-character strings.  A completion is a      *)
(* sequence over a small alphabet: backtick, newline, space, the letter    *)
(* "j" (plain text / a language tag) and JSON lexemes: the brackets, the   *)
(* comma and one symbol per object member ("T" is "clientCode":"TOW",      *)
(* "Z" is "clientCode":"ZZZ", "H" is "clientCode":"HUN", "B" is            *)
(* "clientCode":"TBC", "Q" is "questions":null).                           *)
(***************************************************************************)
EXTENDS Integers, Sequences, FiniteSets, TLC

\* ------------------------------------------------------------------ bounds
\* Number of triage requests handled (possibly concurrently) in one run.
NumReq == 2
\* Longest input text drawn for the fence-stripping specification.
MaxLen == 7

NoneVal == "None"

\* Python None where a str, a dict or a tuple is expected
NoText == <<NoneVal>>
NoJob == [code |-> NoneVal, seq |-> <<>>]
NoClient == [recordId |-> NoneVal, clientCode |-> NoneVal, teamsId |-> NoneVal,
             sharepointUrl |-> NoneVal, nextNumber |-> 0]
NoRet == [job |-> NoJob, team |-> NoneVal, sharepoint |-> NoneVal,
          record |-> NoneVal]
NoPatch == [record |-> NoneVal, value |-> 0, applied |-> FALSE, raised |-> FALSE]

\* ------------------------------------------------------------- str helpers
\* BT stands for the backtick character (written "^" here)
BT == "^"
NL == "\n"
SP == " "

\* the characters Python str.strip() removes, among the modelled alphabet
IsSpace(c) == c \in {SP, NL}

Fence == <<BT, BT, BT>>

\* s.startswith(p)
StartsWith(s, p) == Len(s) >= Len(p) /\ SubSeq(s, 1, Len(p)) = p

\* s.endswith(p)
EndsWith(s, p) == Len(s) >= Len(p) /\ SubSeq(s, Len(s) - Len(p) + 1, Len(s)) = p

\* s.strip(): drop leading and trailing whitespace
StrStrip(s) ==
    LET keep == {i \in 1..Len(s) : ~IsSpace(s[i])}
    IN  IF keep = {} THEN <<>>
        ELSE LET lo == CHOOSE i \in keep : \A k \in keep : i <= k
                 hi == CHOOSE i \in keep : \A k \in keep : i >= k
             IN  SubSeq(s, lo, hi)

\* s.split('\n', 1)[1]: what follows the first newline
AfterFirstNewline(s) ==
    LET at == {i \in 1..Len(s) : s[i] = NL}
        first == CHOOSE i \in at : \A k \in at : i <= k
    IN  SubSeq(s, first + 1, Len(s))

\* s.rsplit('```', 1)[0]: what precedes the last occurrence of the fence
BeforeLastFence(s) ==
    LET at == {i \in 1..(Len(s) - 2) : SubSeq(s, i, i + 2) = Fence}
        last == CHOOSE i \in at : \A k \in at : i >= k
    IN  IF at = {} THEN s ELSE SubSeq(s, 1, last - 1)

\* the opening-fence branch with the language-tag line kept: content[3:] always
DropOpeningFenceOnly(c) == SubSeq(c, 4, Len(c))

\* line 46: content.split('\n', 1)[1] if '\n' in content else content[3:]
DropOpeningFence(c) ==
    IF \E i \in 1..Len(c) : c[i] = NL
    THEN AfterFirstNewline(c)
    ELSE SubSeq(c, 4, Len(c))

\* strip_markdown_json(content)
strip_markdown_json(content) ==
    LET c0 == StrStrip(content)
        c1 == IF StartsWith(c0, Fence) THEN DropOpeningFence(c0) ELSE c0
        c2 == IF EndsWith(c1, Fence) THEN BeforeLastFence(c1) ELSE c1
    IN  StrStrip(c2)

\* ------------------------------------------------------------ model output
\* json.loads on the modelled lexemes: an object is "{" members "}" with the
\* members separated by commas; "[]" is a JSON array; anything else raises
\* json.JSONDecodeError.
MemberSyms == {"T", "Z", "H", "B", "Q"}

IsObjectText(c) ==
    /\ Len(c) >= 2
    /\ c[1] = "{"
    /\ c[Len(c)] = "}"
    /\ LET m == SubSeq(c, 2, Len(c) - 1)
       IN  \/ m = <<>>
           \/ /\ Len(m) % 2 = 1
              /\ \A i \in 1..Len(m) :
                    IF i % 2 = 1 THEN m[i] \in MemberSyms ELSE m[i] = ","

IsArrayText(c) == c = <<"[", "]">>

\* json.loads(content) succeeds
JsonParses(c) == IsObjectText(c) \/ IsArrayText(c)

CodeOfSym(x) ==
    CASE x = "T" -> "TOW"
      [] x = "Z" -> "ZZZ"
      [] x = "H" -> "HUN"
      [] x = "B" -> "TBC"
      [] OTHER   -> NoneVal

\* analysis.get('clientCode', 'TBC') on a parsed object (the last duplicate
\* key wins, as in json.loads)
ClientCodeOf(c) ==
    LET at == {i \in 2..(Len(c) - 1) : c[i] \in MemberSyms \ {"Q"}}
    IN  IF at = {} THEN "TBC"
        ELSE CodeOfSym(c[CHOOSE i \in at : \A k \in at : i >= k])

\* build_triage_email iterates analysis.get('questions', []): a null value
\* raises TypeError
QuestionsIterable(c) == \A i \in 1..Len(c) : c[i] # "Q"

\* ---------------------------------------------------------------- job number
Digit == [d \in 0..9 |-> CASE d = 0 -> "0" [] d = 1 -> "1" [] d = 2 -> "2"
                           [] d = 3 -> "3" [] d = 4 -> "4" [] d = 5 -> "5"
                           [] d = 6 -> "6" [] d = 7 -> "7" [] d = 8 -> "8"
                           [] d = 9 -> "9"]

RECURSIVE Str(_)
\* str(n) for n >= 0
Str(n) == IF n < 10 THEN <<Digit[n]>> ELSE Str(n \div 10) \o <<Digit[n % 10]>>

RECURSIVE zfill(_, _)
\* s.zfill(width)
zfill(s, width) == IF Len(s) >= width THEN s ELSE zfill(<<"0">> \o s, width)

TBC == <<"T", "B", "C">>

\* padding to two digits instead of three
FormatJobNumber2(client_code, current_number) ==
    [code |-> client_code, seq |-> zfill(Str(current_number), 2)]

\* line 128: f"{client_code} {str(current_number).zfill(3)}"; the code and the
\* part after the space are kept as the two fields of a record
FormatJobNumber(client_code, current_number) ==
    [code |-> client_code, seq |-> zfill(Str(current_number), 3)]

\* the bare 'TBC' of the docstring, without the client code
TbcResultBare(client_code) ==
    [job |-> [code |-> NoneVal, seq |-> TBC],
     team |-> NoneVal, sharepoint |-> NoneVal, record |-> NoneVal]

\* lines 116, 122, 140 and 335-338: the TBC placeholder with null metadata
TbcResult(client_code) ==
    [job |-> [code |-> client_code, seq |-> TBC],
     team |-> NoneVal, sharepoint |-> NoneVal, record |-> NoneVal]

\* reserved codes checked with the old single sentinel only
IsReservedTbcOnly(client_code) == client_code = "TBC"

\* line 332: client_code in ['HUN', 'TBC']
IsReserved(client_code) == client_code \in {"HUN", "TBC"}

\* ------------------------------------------------------------------- state
VARIABLES
    apiKey,     \* AIRTABLE_API_KEY is configured (fixed for the process)
    nextNum,    \* the Clients table: record id -> its "Next #" field
    n0,         \* nextNum as it was when the run began (history)
    pc,         \* request -> where its triage() handler stands
    body,       \* request -> the kind of body it was sent with (history)
    completion, \* request -> the text the model returned (history)
    content,    \* request -> the local `content` (fence-stripped completion)
    code,       \* request -> the local `client_code`
    client,     \* request -> the dict get_client_by_code returned
    ret,        \* request -> (job_number, team_id, sharepoint_url, client_record_id)
    resp,       \* request -> the HTTP response
    calls,      \* request -> external calls made: llm, get and patch (history)
    patched,    \* request -> the PATCH it sent and whether the store applied it
    completed,  \* requests in the order they were answered (history)
    sPhase,     \* fence stripping on its own: the step reached
    sIn,        \* the input text
    sTag,       \* the language tag of the fenced variant
    sOut,       \* strip_markdown_json(sIn)
    sOut2,      \* strip_markdown_json(sOut)
    sBare,      \* strip_markdown_json of sIn behind a bare fence line
    sTagged     \* strip_markdown_json of sIn behind a tagged fence line

triageVars == <<apiKey, nextNum, n0, pc, body, completion, content, code, client, ret, resp,
                calls, patched, completed>>
stripVars == <<sPhase, sIn, sTag, sOut, sOut2, sBare, sTagged>>
vars == <<triageVars, stripVars>>

Reqs == 1..NumReq

\* The Clients table: record ids and their static fields.
Records == {"recTOW", "recHUN"}
RecordCode == [rec \in Records |-> IF rec = "recTOW" THEN "TOW" ELSE "HUN"]
TeamsIdOf == [rec \in Records |-> IF rec = "recTOW" THEN "teamTOW" ELSE "teamHUN"]
SharepointOf == [rec \in Records |-> IF rec = "recTOW" THEN "spTOW" ELSE "spHUN"]

\* Values the TOW counter starts from: one, two and three digits, each next to
\* a change of length.
InitialNumbers == {9, 23, 99, 999}

\* request bodies: no JSON body (get_json raises or yields None), the JSON
\* value null, an object without emailContent, an empty emailContent, a text
Bodies == {"nojson", "null", "nofield", "empty", "text"}

\* what the model may answer
Completions == {
    <<BT, BT, BT, "j", NL, "{", "T", "}", NL, BT, BT, BT>>,
    <<"{", "T", "}">>,
    <<SP, "{", "Z", "}", NL>>,
    <<"{", "H", "}">>,
    <<"{", "B", "}">>,
    <<"{", "}">>,
    <<"{", "T", ",", "Q", "}">>,
    <<"[", "]">>,
    <<"j", SP, "j">>,
    <<BT, BT, BT, NL, "j", NL, BT, BT, BT>> }

ReadOutcomes == {"ok", "error"}

\* the PATCH: answered 2xx; answered with an error status; failing before it
\* reaches the store; timing out after the store applied it
WriteOutcomes == {"ok", "status", "raise", "timeout"}
Applied(o) == o \in {"ok", "timeout"}
Raises(o) == o \in {"raise", "timeout"}

\* ----------------------------------------------------------------- ledger
\* lines 64-100; every row of the table carries its "Next #" field, an integer
\* of at least 1, so the default of line 95 is not drawn on
get_client_by_code(client_code, outcome) ==
    IF ~apiKey THEN NoClient
    ELSE IF outcome = "error" THEN NoClient
    ELSE LET records == {rec \in Records : RecordCode[rec] = client_code}
         IN  IF records = {} THEN NoClient
             ELSE LET record == CHOOSE rec \in records : TRUE
                  IN  [recordId |-> record,
                       clientCode |-> client_code,
                       teamsId |-> TeamsIdOf[record],
                       sharepointUrl |-> SharepointOf[record],
                       nextNumber |-> nextNum[record]]

\* the store incrementing its own current value
PatchValueAtomic(cl) == nextNum[cl.recordId] + 1

\* the counter written back unchanged
PatchValueStale(cl) == cl.nextNumber

\* lines 124-125 and 132: next_number = current_number + 1
PatchValue(cl) == cl.nextNumber + 1

\* the numbered result whatever the PATCH did
IncrementResultNoCatch(client_code, cl, raised) ==
    [job |-> FormatJobNumber(client_code, cl.nextNumber),
     team |-> cl.teamsId, sharepoint |-> cl.sharepointUrl, record |-> cl.recordId]

\* lines 134-140: what increment_client_job_number returns once the PATCH was
\* sent: an exception from httpx.patch lands in the except branch
IncrementResult(client_code, cl, raised) ==
    IF raised THEN TbcResult(client_code)
    ELSE [job |-> FormatJobNumber(client_code, cl.nextNumber),
          team |-> cl.teamsId, sharepoint |-> cl.sharepointUrl,
          record |-> cl.recordId]

\* --------------------------------------------------------------- responses
NoResp ==
    [status |-> 0, error |-> NoneVal, raw |-> NoText, jobNumber |-> NoJob,
     clientCode |-> NoneVal, teamId |-> NoneVal, sharepointUrl |-> NoneVal]

\* line 311
NoContentResponse ==
    [status |-> 400, error |-> "No email content provided", raw |-> NoText,
     jobNumber |-> NoJob, clientCode |-> NoneVal, teamId |-> NoneVal,
     sharepointUrl |-> NoneVal]

\* the malformed completion reported without its text
InvalidJsonNoRaw(c) ==
    [status |-> 500, error |-> "Claude returned invalid JSON", raw |-> <<"N", "o">>,
     jobNumber |-> NoJob, clientCode |-> NoneVal, teamId |-> NoneVal,
     sharepointUrl |-> NoneVal]

\* lines 361-366
InvalidJsonResponse(c) ==
    [status |-> 500, error |-> "Claude returned invalid JSON", raw |-> c,
     jobNumber |-> NoJob, clientCode |-> NoneVal, teamId |-> NoneVal,
     sharepointUrl |-> NoneVal]

\* lines 367-371
InternalErrorResponse ==
    [status |-> 500, error |-> "Internal server error", raw |-> NoText,
     jobNumber |-> NoJob, clientCode |-> NoneVal, teamId |-> NoneVal,
     sharepointUrl |-> NoneVal]

\* lines 340-359: build the email, then the 200 body; a questions value that
\* cannot be iterated raises in build_triage_email
FinalResponse(c, client_code, result) ==
    IF QuestionsIterable(c)
    THEN [status |-> 200, error |-> NoneVal, raw |-> NoText,
          jobNumber |-> result.job, clientCode |-> client_code,
          teamId |-> result.team, sharepointUrl |-> result.sharepoint]
    ELSE InternalErrorResponse

\* ----------------------------------------------------------------- actions
Init ==
    /\ apiKey \in BOOLEAN
    /\ nextNum \in {[rec \in Records |-> IF rec = "recTOW" THEN n ELSE 1] :
                      n \in InitialNumbers}
    /\ n0 = nextNum
    /\ pc = [r \in Reqs |-> "idle"]
    /\ body = [r \in Reqs |-> NoneVal]
    /\ completion = [r \in Reqs |-> NoText]
    /\ content = [r \in Reqs |-> <<>>]
    /\ code = [r \in Reqs |-> NoneVal]
    /\ client = [r \in Reqs |-> NoClient]
    /\ ret = [r \in Reqs |-> NoRet]
    /\ resp = [r \in Reqs |-> NoResp]
    /\ calls = [r \in Reqs |-> [llm |-> 0, get |-> 0, patch |-> 0]]
    /\ patched = [r \in Reqs |-> NoPatch]
    /\ completed = <<>>
    /\ sPhase = "off"
    /\ sIn = <<>>
    /\ sTag = <<>>
    /\ sOut = <<>>
    /\ sOut2 = <<>>
    /\ sBare = <<>>
    /\ sTagged = <<>>

\* the handler returns `response`
Answer(r, response) ==
    /\ resp' = [resp EXCEPT ![r] = response]
    /\ pc' = [pc EXCEPT ![r] = "done"]
    /\ completed' = Append(completed, r)

\* lines 306-311: the request arrives and its body is read
Receive(r, b) ==
    /\ pc[r] = "idle"
    /\ body' = [body EXCEPT ![r] = b]
    /\ IF b \in {"nojson", "null"}
       THEN Answer(r, InternalErrorResponse)
       ELSE IF b \in {"nofield", "empty"}
       THEN Answer(r, NoContentResponse)
       ELSE /\ pc' = [pc EXCEPT ![r] = "llm"]
            /\ UNCHANGED <<resp, completed>>
    /\ UNCHANGED <<apiKey, nextNum, n0, completion, content, code, client, ret,
                   calls, patched, stripVars>>

\* lines 313-322 when the completion call raises
ModelFails(r) ==
    /\ pc[r] = "llm"
    /\ calls' = [calls EXCEPT ![r].llm = @ + 1]
    /\ Answer(r, InternalErrorResponse)
    /\ UNCHANGED <<apiKey, nextNum, n0, body, completion, content, code, client,
                   ret, patched, stripVars>>

\* lines 313-338 up to the ledger read: the completion `text` arrives, is
\* stripped and parsed, and the client code is taken; reserved codes and a
\* missing API key (line 114) end in the TBC placeholder without any ledger call
CallModel(r, text) ==
    /\ pc[r] = "llm"
    /\ calls' = [calls EXCEPT ![r].llm = @ + 1]
    /\ completion' = [completion EXCEPT ![r] = text]
    /\ LET c == strip_markdown_json(text)
           cc == ClientCodeOf(c)
       IN  /\ content' = [content EXCEPT ![r] = c]
           /\ IF ~JsonParses(c)
              THEN /\ Answer(r, InvalidJsonResponse(c))
                   /\ UNCHANGED <<code, ret>>
              ELSE IF IsArrayText(c)
              THEN /\ Answer(r, InternalErrorResponse)
                   /\ UNCHANGED <<code, ret>>
              ELSE /\ code' = [code EXCEPT ![r] = cc]
                   /\ IF IsReserved(cc) \/ ~apiKey
                      THEN /\ ret' = [ret EXCEPT ![r] = TbcResult(cc)]
                           /\ Answer(r, FinalResponse(c, cc, TbcResult(cc)))
                      ELSE /\ pc' = [pc EXCEPT ![r] = "read"]
                           /\ UNCHANGED <<ret, resp, completed>>
    /\ UNCHANGED <<apiKey, nextNum, n0, body, client, patched, stripVars>>

\* lines 119-122 (get_client_by_code, lines 73-100): the ledger read
ReadLedger(r, outcome) ==
    /\ pc[r] = "read"
    /\ calls' = [calls EXCEPT ![r].get = @ + 1]
    /\ LET cl == get_client_by_code(code[r], outcome)
       IN  IF cl = NoClient
           THEN /\ ret' = [ret EXCEPT ![r] = TbcResult(code[r])]
                /\ Answer(r, FinalResponse(content[r], code[r], TbcResult(code[r])))
                /\ UNCHANGED client
           ELSE /\ client' = [client EXCEPT ![r] = cl]
                /\ pc' = [pc EXCEPT ![r] = "write"]
                /\ UNCHANGED <<ret, resp, completed>>
    /\ UNCHANGED <<apiKey, nextNum, n0, body, completion, content, code, patched,
                   stripVars>>

\* lines 124-140 and 340-359: the PATCH is sent, then the response is built
WriteLedger(r, outcome) ==
    /\ pc[r] = "write"
    /\ calls' = [calls EXCEPT ![r].patch = @ + 1]
    /\ LET cl == client[r]
           value == PatchValue(cl)
           result == IncrementResult(code[r], cl, Raises(outcome))
       IN  /\ patched' = [patched EXCEPT ![r] =
                  [record |-> cl.recordId, value |-> value,
                   applied |-> Applied(outcome), raised |-> Raises(outcome)]]
           /\ nextNum' = IF Applied(outcome)
                         THEN [nextNum EXCEPT ![cl.recordId] = value]
                         ELSE nextNum
           /\ ret' = [ret EXCEPT ![r] = result]
           /\ Answer(r, FinalResponse(content[r], code[r], result))
    /\ UNCHANGED <<apiKey, n0, body, completion, content, code, client,
                   stripVars>>

Next ==
    \E r \in Reqs :
        \/ \E b \in Bodies : Receive(r, b)
        \/ ModelFails(r)
        \/ \E text \in Completions : CallModel(r, text)
        \/ \E outcome \in ReadOutcomes : ReadLedger(r, outcome)
        \/ \E outcome \in WriteOutcomes : WriteLedger(r, outcome)

Spec == Init /\ [][Next]_vars

\* ------------------------------------------- one request after the other
\* no other request is between its arrival and its answer
NoneInFlight == \A q \in Reqs : pc[q] \in {"idle", "done"}

\* Requests are served strictly one after another and the store applies and
\* acknowledges every PATCH.
SeqNext ==
    \E r \in Reqs :
        \/ NoneInFlight /\ \E b \in Bodies : Receive(r, b)
        \/ ModelFails(r)
        \/ \E text \in Completions : CallModel(r, text)
        \/ \E outcome \in ReadOutcomes : ReadLedger(r, outcome)
        \/ WriteLedger(r, "ok")

SeqSpec == Init /\ [][SeqNext]_vars

\* -------------------------------------------------- fence stripping alone
Alphabet == {BT, NL, SP, "j"}
Texts == UNION {[1..n -> Alphabet] : n \in 0..MaxLen}

\* language tags of an opening fence line (no newline inside)
LangTags == {<<"j">>, <<"j", SP>>, <<BT>>}

\* inner text behind an opening fence line with the given tag and a closing
\* fence line
Fenced(tag, inner) == Fence \o tag \o <<NL>> \o inner \o <<NL>> \o Fence

StripInit ==
    /\ apiKey = TRUE
    /\ nextNum = [rec \in Records |-> 1]
    /\ n0 = nextNum
    /\ pc = [r \in Reqs |-> "idle"]
    /\ body = [r \in Reqs |-> NoneVal]
    /\ completion = [r \in Reqs |-> NoText]
    /\ content = [r \in Reqs |-> <<>>]
    /\ code = [r \in Reqs |-> NoneVal]
    /\ client = [r \in Reqs |-> NoClient]
    /\ ret = [r \in Reqs |-> NoRet]
    /\ resp = [r \in Reqs |-> NoResp]
    /\ calls = [r \in Reqs |-> [llm |-> 0, get |-> 0, patch |-> 0]]
    /\ patched = [r \in Reqs |-> NoPatch]
    /\ completed = <<>>
    /\ sPhase = "in"
    /\ sIn \in Texts
    /\ sTag = <<>>
    /\ sOut = <<>>
    /\ sOut2 = <<>>
    /\ sBare = <<>>
    /\ sTagged = <<>>

\* strip_markdown_json applied to the input
StripOnce ==
    /\ sPhase = "in"
    /\ sOut' = strip_markdown_json(sIn)
    /\ sPhase' = "once"
    /\ UNCHANGED <<triageVars, sIn, sTag, sOut2, sBare, sTagged>>

\* strip_markdown_json applied to its own result
StripAgain ==
    /\ sPhase = "once"
    /\ sOut2' = strip_markdown_json(sOut)
    /\ sPhase' = "twice"
    /\ UNCHANGED <<triageVars, sIn, sTag, sOut, sBare, sTagged>>

\* strip_markdown_json applied to the input behind a bare and a tagged fence
StripFenced(tag) ==
    /\ sPhase = "in"
    /\ sTag' = tag
    /\ sBare' = strip_markdown_json(Fenced(<<>>, sIn))
    /\ sTagged' = strip_markdown_json(Fenced(tag, sIn))
    /\ sPhase' = "fenced"
    /\ UNCHANGED <<triageVars, sIn, sOut, sOut2>>

StripNext ==
    \/ StripOnce
    \/ StripAgain
    \/ \E tag \in LangTags : StripFenced(tag)

StripSpec == StripInit /\ [][StripNext]_vars

\* =================================================================== claims
Done(r) == pc[r] = "done"

\* the renderer accepts the analysis of request r
RenderOk(r) == QuestionsIterable(content[r])

DigitChars == {Digit[d] : d \in 0..9}
DigitVal(ch) == CHOOSE d \in 0..9 : Digit[d] = ch

RECURSIVE DigitsValue(_)
DigitsValue(seq) ==
    IF seq = <<>> THEN 0
    ELSE 10 * DigitsValue(SubSeq(seq, 1, Len(seq) - 1)) + DigitVal(seq[Len(seq)])

\* seq is the decimal numeral of n, zero-padded to (at least) three digits
IsPadded3(seq, n) ==
    /\ Len(seq) >= 3
    /\ \A i \in 1..Len(seq) : seq[i] \in DigitChars
    /\ DigitsValue(seq) = n
    /\ Len(seq) > 3 => seq[1] # "0"

IsNumbered(job) == job.seq # <<>> /\ job.seq # <<"T", "B", "C">>

\* the placeholder "{code} TBC" with null metadata
IsPlaceholder(result, cc) ==
    /\ result.job = [code |-> cc, seq |-> <<"T", "B", "C">>]
    /\ result.team = NoneVal
    /\ result.sharepoint = NoneVal
    /\ result.record = NoneVal

\* the job number "{code} nnn" with the metadata of the record read
IsNumberedFor(result, cc, cl) ==
    /\ result.job.code = cc
    /\ IsPadded3(result.job.seq, cl.nextNumber)
    /\ result.team = TeamsIdOf[cl.recordId]
    /\ result.sharepoint = SharepointOf[cl.recordId]
    /\ result.record = cl.recordId

\* the 200 response carries what reserveNext returned
Carries(r) ==
    /\ resp[r].status = 200
    /\ resp[r].jobNumber = ret[r].job
    /\ resp[r].teamId = ret[r].team
    /\ resp[r].sharepointUrl = ret[r].sharepoint
    /\ resp[r].clientCode = code[r]

C2_NumberOnlyIfWritten ==
    \A r \in Reqs :
        (Done(r) /\ resp[r].status = 200 /\ IsNumbered(resp[r].jobNumber)) =>
            /\ calls[r].patch = 1
            /\ patched[r].applied

\* ----------------------------------------------------------------------- C3
WriteFailed(r) ==
    Done(r) /\ calls[r].patch = 1 /\ (patched[r].raised \/ ~patched[r].applied)

LookupAbsent(r) ==
    /\ Done(r)
    /\ code[r] \notin {NoneVal, "HUN", "TBC"}
    /\ client[r] = NoClient

C5_ReservedBypass ==
    \A r \in Reqs :
        /\ (Done(r) /\ content[r] = <<"{", "}">>) => code[r] = "TBC"
        /\ code[r] \in {"HUN", "TBC"} =>
              /\ Done(r)
              /\ calls[r].get = 0
              /\ calls[r].patch = 0
              /\ client[r] = NoClient
              /\ patched[r] = NoPatch
              /\ IsPlaceholder(ret[r], code[r])
              /\ RenderOk(r) => Carries(r)

\* with credentials and a HUN record in the store, a HUN request and a request
\* without clientCode both got the placeholder and the store was left alone
C5_Witness ==
    /\ apiKey
    /\ \E rec \in Records : RecordCode[rec] = "HUN"
    /\ \E r1, r2 \in Reqs :
          /\ Done(r1) /\ code[r1] = "HUN"
          /\ resp[r1].status = 200
          /\ resp[r1].jobNumber = [code |-> "HUN", seq |-> <<"T", "B", "C">>]
          /\ Done(r2) /\ content[r2] = <<"{", "}">> /\ code[r2] = "TBC"
          /\ resp[r2].jobNumber = [code |-> "TBC", seq |-> <<"T", "B", "C">>]
          /\ calls[r1].get + calls[r2].get = 0
          /\ nextNum = n0

\* ----------------------------------------------------------------------- C6
\* two answered requests returned the same numbered job number
SameNumber(r1, r2) ==
    /\ r1 # r2
    /\ Done(r1) /\ Done(r2)
    /\ IsNumbered(ret[r1].job)
    /\ ret[r1].job = ret[r2].job

\* C6: the read-then-increment race: whenever two requests return the same job
\* number, both read the same Next # = n from the same record and both wrote
\* n + 1 to it, so that two applied writes advance the counter by one only; the
\* witness is the interleaving in which this happens with both writes applied.
C6_DuplicateMeansLostUpdate ==
    \A r1, r2 \in Reqs :
        SameNumber(r1, r2) =>
            /\ client[r1].recordId = client[r2].recordId
            /\ client[r1].nextNumber = client[r2].nextNumber
            /\ patched[r1].record = patched[r2].record
            /\ patched[r1].value = client[r1].nextNumber + 1
            /\ patched[r2].value = patched[r1].value

\* both requests read before either wrote: both writes were applied and
\* acknowledged, both responses carry the same job number and the counter
\* moved by one
C6_Witness ==
    \E r1, r2 \in Reqs :
        /\ SameNumber(r1, r2)
        /\ resp[r1].status = 200 /\ resp[r2].status = 200
        /\ resp[r1].jobNumber = resp[r2].jobNumber
        /\ IsNumbered(resp[r1].jobNumber)
        /\ patched[r1].applied /\ ~patched[r1].raised
        /\ patched[r2].applied /\ ~patched[r2].raised
        /\ nextNum[patched[r1].record] = n0[patched[r1].record] + 1

\* ----------------------------------------------------------------------- C7
\* the model answered request r and the fence-stripped answer is not JSON
Malformed(r) ==
    /\ Done(r)
    /\ completion[r] # NoText
    /\ ~JsonParses(content[r])

\* C7: when the fence-stripped completion is not parseable JSON the request
\* ends with status 500, error "Claude returned invalid JSON" and raw_response
\* equal to the fence-stripped text; no default analysis or job number is
\* substituted and no ledger read or write is issued.
C7_InvalidJson ==
    \A r \in Reqs :
        Malformed(r) =>
            /\ resp[r].status = 500
            /\ resp[r].error = "Claude returned invalid JSON"
            /\ resp[r].raw = strip_markdown_json(completion[r])
            /\ resp[r].raw = content[r]
            /\ resp[r].jobNumber = NoJob
            /\ code[r] = NoneVal
            /\ ret[r] = NoRet
            /\ calls[r] = [llm |-> 1, get |-> 0, patch |-> 0]
            /\ patched[r] = NoPatch

\* a fenced plain-text completion was reported with its inner text
C7_Witness ==
    \E r \in Reqs :
        /\ Malformed(r)
        /\ completion[r] = <<BT, BT, BT, NL, "j", NL, BT, BT, BT>>
        /\ resp[r].status = 500
        /\ resp[r].raw = <<"j">>
        /\ calls[r].get = 0

\* ----------------------------------------------------------------------- C8
\* C8: every request whose emailContent is absent or empty (a body without the
\* field, an empty field, no usable JSON body) is rejected with 400 and
\* {"error": "No email content provided"} before the model is called: no LLM
\* call, no ledger read and no ledger write.
C8_NoContentRejected ==
    \A r \in Reqs :
        (Done(r) /\ body[r] \in {"nojson", "null", "nofield", "empty"}) =>
            /\ resp[r].status = 400
            /\ resp[r].error = "No email content provided"
            /\ calls[r] = [llm |-> 0, get |-> 0, patch |-> 0]

\* ----------------------------------------------------------------------- C9
\* no leading or trailing whitespace
IsTrimmed(t) == t = <<>> \/ (~IsSpace(t[1]) /\ ~IsSpace(t[Len(t)]))

\* trimmed, and neither beginning nor ending with the fence
IsUnfenced(t) == IsTrimmed(t) /\ ~StartsWith(t, Fence) /\ ~EndsWith(t, Fence)

\* C9 (as claimed): strip(strip(s)) = strip(s) for every text s, an unfenced
\* string is returned unchanged, and a text fenced with a bare or with a tagged
\* opening line yields the same inner text.
C9_Original ==
    /\ (sPhase = "once" /\ IsUnfenced(sIn)) => sOut = sIn
    /\ sPhase = "twice" => sOut2 = sOut
    /\ sPhase = "fenced" =>
          /\ sBare = sTagged
          /\ IsTrimmed(sIn) => sBare = sIn

\* C9 (amended): a trimmed string that neither begins nor ends with the fence
\* is returned unchanged, so strip(strip(s)) = strip(s) whenever strip(s) is
\* such a string (one call removes one pair of fences only); and every inner
\* text fenced with a bare or with a tagged opening line yields the same
\* result, the inner text without its surrounding whitespace.
C9_StripFixpoint ==
    /\ (sPhase = "once" /\ IsUnfenced(sIn)) => sOut = sIn
    /\ sPhase \in {"once", "twice"} => IsTrimmed(sOut)
    /\ (sPhase = "twice" /\ IsUnfenced(sOut)) => sOut2 = sOut
    /\ sPhase = "fenced" =>
          /\ sBare = sTagged
          /\ sBare = StrStrip(sIn)
          /\ IsTrimmed(sBare)
          /\ IsTrimmed(sIn) => sBare = sIn

\* a trimmed inner text came back unchanged from behind both fences
C9_Witness ==
    /\ sPhase = "fenced"
    /\ sIn = <<"j", NL, "j">>
    /\ sTag = <<"j">>
    /\ sBare = sIn
    /\ sTagged = sIn

\* ---------------------------------------------------------------------- C10
WroteTow(r) == patched[r].record = "recTOW"

\* the requests that wrote the TOW record, in the order they were answered
TowWriters == SelectSeq(completed, WroteTow)

\* the k-th request got n0 + k - 1, the numbers are pairwise distinct and the
\* counter stands at n0 + k
C10_Consecutive ==
    LET W == TowWriters
        first == n0["recTOW"]
    IN  /\ nextNum["recTOW"] = first + Len(W)
        /\ \A k \in 1..Len(W) :
              /\ client[W[k]].nextNumber = first + k - 1
              /\ ret[W[k]].job.code = "TOW"
              /\ IsPadded3(ret[W[k]].job.seq, first + k - 1)
              /\ RenderOk(W[k]) => Carries(W[k])
        /\ \A i, k \in 1..Len(W) : i # k => ret[W[i]].job # ret[W[k]].job

\* no step lowers a counter
C10_Monotone == \A rec \in Records : nextNum'[rec] >= nextNum[rec]

\* C10: when the requests for a known, non-reserved client code run strictly
\* one after another and every write succeeds, the numbers returned are
\* pairwise distinct and consecutive (the k-th request gets n0 + k - 1), the
\* counter never decreases, and after k requests it equals n0 + k.
C10_Sequential == []C10_Consecutive /\ [][C10_Monotone]_vars

\* every request was served for TOW and the last one got n0 + NumReq - 1
C10_Witness ==
    /\ Len(TowWriters) = NumReq
    /\ \A r \in Reqs : resp[r].status = 200 /\ IsNumbered(resp[r].jobNumber)
    /\ nextNum["recTOW"] = n0["recTOW"] + NumReq
    /\ \E r \in Reqs : client[r].nextNumber = n0["recTOW"] + NumReq - 1

=============================================================================
